---- MODULE Spec2Model ----
(***************************************************************************)
(* A model of src/main.py: a Streamlit script that is executed top to      *)
(* bottom on every page load and every query submission ("script run").    *)
(* The state that survives a run is the process environment and the        *)
(* st.cache_resource store; everything else is local to the run.           *)
(*                                                                         *)
(* What the script cannot decide is an input of the model: which secrets   *)
(* are configured, whether a constructor of the embedding client, the      *)
(* vector store, the LLM client or the retriever raises, what the user     *)
(* types, and what retriever.invoke returns or raises.                     *)
(***************************************************************************)
EXTENDS Naturals, Sequences, FiniteSets

\* ---------------------------------------------------------------- bounds

\* Script runs in one process lifetime.
MaxRuns == 3
\* Longest document sequence retriever.invoke returns in the model.
MaxResults == 2

\* ------------------------------------------------------------- constants

None == [kind |-> "none"]

\* main.py:13
required_secrets == <<"OPENAI_API_KEY", "OPENAI_API_BASE", "OPENAI_MODEL">>

RequiredNames == {required_secrets[i] : i \in 1..Len(required_secrets)}

\* How a secret can be configured: not at all, as a string, or as a TOML
\* value of another type (os.environ accepts only strings).
SecretKinds == {"absent", "str", "other"}

\* The text the user can have in the input box ("" is the empty box).
Queries == {"", "drama rated above 8", "movies by Kabir Khan"}

\* str(e) of an exception raised by a library call.
Exceptions == {"connection error", "invalid request"}

\* The four construction steps of initialize_retriever, in source order.
ConstructionSteps == <<"embeddings", "vectorstore", "llm", "retriever">>

Doc(content, year, director, rating, genre) ==
    [page_content |-> content,
     metadata |-> [year |-> year, director |-> director,
                   rating |-> rating, genre |-> genre]]

\* main.py:34-75.  page_content is abbreviated to its opening words and a
\* rating r is held as 10*r, so that it stays an integer.
Catalog ==
    << Doc("A poor but big-hearted man", 2006, "Rakesh Roshan", 71, "science fiction"),
       Doc("The story of six young Indians", 2006, "Rakeysh Omprakash Mehra", 91, "drama"),
       Doc("A depressed wealthy businessman", 2007, "Anurag Basu", 68, "romance"),
       Doc("A schoolteacher's world", 2023, "R. Balki", 78, "drama"),
       Doc("A man returns to his country", 1995, "Aditya Chopra", 81, "romance"),
       Doc("The story of an Indian army officer", 2003, "J.P. Dutta", 79, "war"),
       Doc("Three young men", 1975, "Ramesh Sippy", 82, "action"),
       Doc("A simple man from a village", 1990, "Sooraj Barjatya", 77, "musical"),
       Doc("A young mute girl from Pakistan", 2015, "Kabir Khan", 80, "drama"),
       Doc("Three idiots embark on a quest", 2009, "Rajkumar Hirani", 94, "comedy") >>

\* ----------------------------------------------------------------- state

VARIABLES
    runs,        \* script runs started so far
    pc,          \* position of the current run in the script
    secrets,     \* st.secrets: name -> how it is configured
    environ,     \* names set in os.environ (survives runs)
    cache,       \* the st.cache_resource entry of initialize_retriever
    bodyStarts,  \* times the body of initialize_retriever was entered
    bodyDone,    \* times it returned a retriever
    docs,        \* the module-level list docs of the current run
    retriever,   \* the module-level name retriever of the current run
    user_query,  \* the module-level name user_query of the current run
    shown,       \* elements the current run has put on the page, in order
    exported,    \* names the current run has written to os.environ
    attempted,   \* construction steps the current run has entered
    raised,      \* the construction step that raised in this run, or "none"
    invoked,     \* arguments of this run's retriever.invoke calls, in order
    reply,       \* what this run's retriever.invoke answered, or None
    prevFailed   \* whether the previous run's retriever.invoke raised

vars == <<runs, pc, secrets, environ, cache, bodyStarts, bodyDone, docs,
          retriever, user_query, shown, exported, attempted, raised,
          invoked, reply, prevFailed>>

persistent == <<environ, cache, bodyStarts, bodyDone, prevFailed>>

El(kind, text) == [kind |-> kind, text |-> text]

Kinds(s) == {s[i].kind : i \in 1..Len(s)}

\* ------------------------------------------------------------ operations

Init ==
    /\ runs = 0
    /\ pc = "idle"
    /\ secrets = [s \in RequiredNames |-> "absent"]
    /\ environ = {}
    /\ cache = None
    /\ bodyStarts = 0
    /\ bodyDone = 0
    /\ docs = <<>>
    /\ retriever = None
    /\ user_query = ""
    /\ shown = <<>>
    /\ exported = {}
    /\ attempted = <<>>
    /\ raised = "none"
    /\ invoked = <<>>
    /\ reply = None
    /\ prevFailed = FALSE

\* A page load or a widget interaction: the script is executed again in a
\* fresh namespace.  The secrets file may have been edited in between.
StartRun ==
    /\ pc \in {"idle", "done", "halted"}
    /\ runs < MaxRuns
    /\ runs' = runs + 1
    /\ \E cfg \in [RequiredNames -> SecretKinds] : secrets' = cfg
    /\ docs' = <<>>
    /\ retriever' = None
    /\ user_query' = ""
    /\ shown' = <<>>
    /\ exported' = {}
    /\ attempted' = <<>>
    /\ raised' = "none"
    /\ invoked' = <<>>
    /\ reply' = None
    /\ prevFailed' = (reply.kind = "raise")
    /\ pc' = "check_secrets"
    /\ UNCHANGED <<environ, cache, bodyStarts, bodyDone>>

\* main.py:14
missing_secrets(present) ==
    SelectSeq(required_secrets, LAMBDA s : present[s] = "absent")

\* The check without its st.stop().
AfterSecretsCheck_NoStop(missing) == "export_env"

\* main.py:16-18: pc after the check.
AfterSecretsCheck(missing) ==
    IF missing # <<>> THEN "halted" ELSE "export_env"

\* main.py:13-18
CheckSecrets ==
    /\ pc = "check_secrets"
    /\ LET missing == missing_secrets(secrets)
       IN /\ shown' = IF missing # <<>>
                      THEN Append(shown, El("error", <<"Missing required secrets">> \o missing))
                      ELSE shown
          /\ pc' = AfterSecretsCheck(missing)
    /\ UNCHANGED <<runs, secrets, docs, retriever, user_query, exported,
                   attempted, raised, invoked, reply>>
    /\ UNCHANGED persistent

\* main.py:21-31.  os.environ[...] = v raises TypeError when v is no string;
\* the first assignment that raises ends the try block.
ExportEnv ==
    /\ pc = "export_env"
    /\ LET written ==
             IF secrets["OPENAI_API_KEY"] # "str" THEN {}
             ELSE IF secrets["OPENAI_API_BASE"] # "str" THEN {"OPENAI_API_KEY"}
             ELSE {"OPENAI_API_KEY", "OPENAI_API_BASE"}
           ok == Cardinality(written) = 2
       IN /\ environ' = environ \cup written
          /\ exported' = written
          /\ shown' = IF ok
                      THEN shown \o << El("sidebar", <<"Configuration:">>),
                                       El("sidebar", <<"API Base">>),
                                       El("sidebar", <<"Model">>) >>
                      ELSE Append(shown, El("error", <<"Error setting environment variables">>))
          /\ pc' = IF ok THEN "define_docs" ELSE "halted"
    /\ UNCHANGED <<runs, secrets, docs, retriever, user_query,
                   attempted, raised, invoked, reply>>
    /\ UNCHANGED <<cache, bodyStarts, bodyDone, prevFailed>>

\* main.py:34-75
DefineDocs ==
    /\ pc = "define_docs"
    /\ docs' = Catalog
    /\ pc' = "title"
    /\ UNCHANGED <<runs, secrets, retriever, user_query, shown, exported,
                   attempted, raised, invoked, reply>>
    /\ UNCHANGED persistent

\* main.py:145-153
RenderTitle ==
    /\ pc = "title"
    /\ shown' = shown \o << El("title", <<"Movie Recommendation System">>),
                            El("markdown", <<"This app helps you find movies">>) >>
    /\ pc' = "init_retriever"
    /\ UNCHANGED <<runs, secrets, docs, retriever, user_query, exported,
                   attempted, raised, invoked, reply>>
    /\ UNCHANGED persistent

\* --------------------------------------------------- initialize_retriever

StepNo(step) == CHOOSE i \in 1..Len(ConstructionSteps) : ConstructionSteps[i] = step

FailurePoints == {"none"} \cup {ConstructionSteps[i] : i \in 1..Len(ConstructionSteps)}

\* The except blocks without their st.stop(): every step is entered.
StepsEntered_NoStop(failAt) == ConstructionSteps

\* main.py:80-142: the construction steps the body enters when `failAt`
\* raises.  Each except block ends in st.stop(), which leaves the function.
StepsEntered(failAt) ==
    IF failAt = "none" THEN ConstructionSteps
    ELSE SubSeq(ConstructionSteps, 1, StepNo(failAt))

\* main.py:82,84,89,91,126,128,138,141: a sidebar success for every step
\* that returned, then the error of the step that raised.
BodyElements(failAt, exc) ==
    LET entered == StepsEntered(failAt)
        okCount == IF failAt = "none" THEN Len(entered) ELSE Len(entered) - 1
    IN [i \in 1..okCount |-> El("sidebar_success", <<entered[i]>>)]
       \o (IF failAt = "none" THEN <<>>
           ELSE << El("error", <<"Error initializing", failAt, exc>>) >>)

\* main.py:88,132-139: the retriever object, over an index of the documents
\* it was built from; id tells one constructed object from another.
NewRetriever(id, documents) == [kind |-> "retriever", id |-> id, index |-> documents]

\* initialize_retriever without its decorator: nothing is kept.
CacheResourceStore_Drop(value) == None

\* main.py:78: st.cache_resource keeps what the function returned.
CacheResourceStore(value) == value

\* main.py:78, 156: the call finds the cached retriever; the body is skipped.
InitializeRetrieverCached ==
    /\ pc = "init_retriever"
    /\ cache # None
    /\ retriever' = cache
    /\ pc' = "text_input"
    /\ UNCHANGED <<runs, secrets, docs, user_query, shown, exported,
                   attempted, raised, invoked, reply>>
    /\ UNCHANGED persistent

\* main.py:78-142, 156: nothing is cached, the body runs.  A step that raises
\* shows its error and stops the run; the StopException leaves the cached
\* function without a return value, so nothing is stored.
InitializeRetrieverBody ==
    /\ pc = "init_retriever"
    /\ cache = None
    /\ \E failAt \in FailurePoints, exc \in Exceptions :
         /\ failAt = "none" => exc = CHOOSE e \in Exceptions : TRUE
         /\ raised' = failAt
         /\ attempted' = StepsEntered(failAt)
         /\ shown' = shown \o BodyElements(failAt, exc)
         /\ bodyStarts' = bodyStarts + 1
         /\ IF failAt = "none"
            THEN /\ cache' = CacheResourceStore(NewRetriever(bodyStarts + 1, docs))
                 /\ retriever' = NewRetriever(bodyStarts + 1, docs)
                 /\ bodyDone' = bodyDone + 1
                 /\ pc' = "text_input"
            ELSE /\ cache' = cache
                 /\ retriever' = retriever
                 /\ bodyDone' = bodyDone
                 /\ pc' = "halted"
    /\ UNCHANGED <<runs, secrets, docs, user_query, exported, invoked, reply,
                   environ, prevFailed>>

\* ------------------------------------------------------------ query handler

\* main.py:159-160
TextInput ==
    /\ pc = "text_input"
    /\ \E q \in Queries : user_query' = q
    /\ shown' = Append(shown, El("text_input", <<"What kind of movie are you looking for?">>))
    /\ pc' = "query"
    /\ UNCHANGED <<runs, secrets, docs, retriever, exported, attempted,
                   raised, invoked, reply>>
    /\ UNCHANGED persistent

SeqsUpTo(S, n) == UNION {[1..k -> S] : k \in 0..n}

\* What retriever.invoke can answer: it raises, or it returns a sequence of
\* documents of the retriever's index (chosen by the remote model and the
\* similarity search, both opaque to main.py).
Replies(ret) ==
    {[kind |-> "raise", exc |-> e, docs |-> <<>>] : e \in Exceptions}
    \cup {[kind |-> "return", exc |-> "", docs |-> d] :
             d \in SeqsUpTo({ret.index[i] : i \in 1..Len(ret.index)}, MaxResults)}

\* dict.get(key, default)
Get(md, key, default) == IF key \in DOMAIN md THEN md[key] ELSE default

\* main.py:170-176: the expander of one document.
Panel(doc) ==
    [kind |-> "expander",
     text |-> << Get(doc.metadata, "director", "Unknown Director"),
                 Get(doc.metadata, "year", "Unknown Year"),
                 doc.page_content,
                 Get(doc.metadata, "genre", "N/A"),
                 Get(doc.metadata, "rating", "N/A") >>]

\* The loop starting at the second document.
RenderResults_SkipFirst(results) ==
    << El("subheader", <<"Here are your movie recommendations:">>) >>
    \o [i \in 1..(Len(results) - 1) |-> Panel(results[i + 1])]

\* main.py:167-176
RenderResults(results) ==
    << El("subheader", <<"Here are your movie recommendations:">>) >>
    \o [i \in 1..Len(results) |-> Panel(results[i])]

\* The except block without its st.info.
HandleReply_NoSuggestion(r) ==
    IF r.kind = "raise"
    THEN << El("error", <<"An error occurred during search", r.exc>>) >>
    ELSE IF r.docs # <<>>
    THEN RenderResults(r.docs)
    ELSE << El("warning", <<"No movies found matching your criteria">>) >>

\* "if results is not None" in place of "if results".
HandleReply_EmptyRendered(r) ==
    IF r.kind = "raise"
    THEN << El("error", <<"An error occurred during search", r.exc>>),
            El("info", <<"Please try rephrasing your query">>) >>
    ELSE RenderResults(r.docs)

\* The warning outside the try block's else branch.
HandleReply_WarnOnError(r) ==
    IF r.kind = "raise"
    THEN << El("error", <<"An error occurred during search", r.exc>>),
            El("info", <<"Please try rephrasing your query">>),
            El("warning", <<"No movies found matching your criteria">>) >>
    ELSE IF r.docs # <<>>
    THEN RenderResults(r.docs)
    ELSE << El("warning", <<"No movies found matching your criteria">>) >>

\* main.py:164-182: what the try block puts on the page for an answer.
HandleReply(r) ==
    IF r.kind = "raise"
    THEN << El("error", <<"An error occurred during search", r.exc>>),
            El("info", <<"Please try rephrasing your query">>) >>
    ELSE IF r.docs # <<>>
    THEN RenderResults(r.docs)
    ELSE << El("warning", <<"No movies found matching your criteria">>) >>

\* A retry of the call with the same query.
InvokeCalls_Retry(q) == <<q, q>>

\* main.py:165: the calls made on the backend for one submitted query.
InvokeCalls(q) == <<q>>

\* main.py:162-182
QueryHandler ==
    /\ pc = "query"
    /\ IF user_query # ""
       THEN \E r \in Replies(retriever) :
              /\ invoked' = invoked \o InvokeCalls(user_query)
              /\ reply' = r
              /\ shown' = Append(shown, El("spinner", <<"Searching for movies...">>))
                          \o HandleReply(r)
       ELSE UNCHANGED <<invoked, reply, shown>>
    /\ pc' = "footer"
    /\ UNCHANGED <<runs, secrets, docs, retriever, user_query, exported,
                   attempted, raised>>
    /\ UNCHANGED persistent

\* main.py:185-186
Footer ==
    /\ pc = "footer"
    /\ shown' = shown \o << El("markdown", <<"---">>),
                            El("footer", <<"Made with love using LangChain and Perplexity AI">>) >>
    /\ pc' = "done"
    /\ UNCHANGED <<runs, secrets, docs, retriever, user_query, exported,
                   attempted, raised, invoked, reply>>
    /\ UNCHANGED persistent

Next ==
    \/ StartRun
    \/ CheckSecrets
    \/ ExportEnv
    \/ DefineDocs
    \/ RenderTitle
    \/ InitializeRetrieverCached
    \/ InitializeRetrieverBody
    \/ TextInput
    \/ QueryHandler
    \/ Footer

Spec == Init /\ [][Next]_vars

\* ---------------------------------------------------------------- claims

OfKind(s, kind) == SelectSeq(s, LAMBDA e : e.kind = kind)

\* The current run has got past the query handler.
PastQuery == pc \in {"footer", "done"}

\* C1: in a run in which at least one required secret is absent, once the
\* check has run the page shows exactly one element, an error naming exactly
\* the absent secrets, and the run has halted there: nothing was exported to
\* the environment, no construction step, text input, backend call or footer
\* has happened.
C1_MissingSecretHalts ==
    (runs > 0 /\ pc # "check_secrets" /\ \E s \in RequiredNames : secrets[s] = "absent")
    => /\ pc = "halted"
       /\ Len(shown) = 1
       /\ shown[1].kind = "error"
       /\ shown[1].text[1] = "Missing required secrets"
       /\ {shown[1].text[i] : i \in 2..Len(shown[1].text)}
             = {s \in RequiredNames : secrets[s] = "absent"}
       /\ exported = {}
       /\ attempted = <<>>
       /\ retriever = None
       /\ invoked = <<>>
       /\ reply = None

\* A run halts on a missing secret although an earlier run of the process
\* built and cached the retriever.
C1_Witness ==
    /\ pc = "halted"
    /\ secrets["OPENAI_API_KEY"] = "str"
    /\ secrets["OPENAI_API_BASE"] = "absent"
    /\ shown # <<>>
    /\ cache # None

\* C2: when a construction step of initialize_retriever raises, the run has
\* halted with that step's error as the last element shown; only the steps
\* up to the one that raised were entered, no retriever was returned or
\* cached, and the run has no text input and no backend call.
C2_ConstructionFailureHalts ==
    raised # "none"
    => /\ pc = "halted"
       /\ attempted # <<>>
       /\ attempted[Len(attempted)] = raised
       /\ \A i \in 1..Len(attempted) : StepNo(attempted[i]) = i
       /\ shown[Len(shown)].kind = "error"
       /\ shown[Len(shown)].text[2] = raised
       /\ Len(OfKind(shown, "sidebar_success")) = Len(attempted) - 1
       /\ retriever = None
       /\ cache = None
       /\ invoked = <<>>
       /\ reply = None
       /\ Kinds(shown) \cap {"text_input", "spinner", "footer"} = {}

\* The LLM client's constructor raised after two steps had succeeded.
C2_Witness ==
    /\ raised = "llm"
    /\ pc = "halted"
    /\ attempted = <<"embeddings", "vectorstore", "llm">>

\* C3 as stated: over any sequence of runs the body of initialize_retriever
\* is entered at most once, also after a run whose construction failed.
C3_BodyEnteredOnce == bodyStarts <= 1

\* C3 amended: the body returns a retriever at most once; once a retriever
\* is cached no run enters the body again and the cache keeps that object;
\* while nothing is cached (no run has reached the call, or every
\* construction so far failed) a run that reaches the call enters the body.
C3_ConstructedOnce ==
    /\ [](bodyDone <= 1)
    /\ []((cache # None) <=> (bodyDone = 1))
    /\ [][cache # None => (cache' = cache /\ bodyStarts' = bodyStarts
                           /\ attempted' \in {attempted, <<>>})]_vars
    /\ [][(pc = "init_retriever" /\ cache = None /\ pc' # pc)
            => (bodyStarts' = bodyStarts + 1 /\ attempted' # <<>>)]_vars
    /\ [][(pc = "init_retriever" /\ cache # None /\ pc' # pc) => retriever' = cache]_vars

\* The third run reuses the retriever the second run built, after the
\* first run's construction failed.
C3_Witness ==
    /\ runs = 3
    /\ bodyStarts = 2
    /\ bodyDone = 1
    /\ attempted = <<>>
    /\ retriever = cache
    /\ retriever # None
    /\ pc = "done"

\* C4: when retriever.invoke raised, the run shows, after the spinner, the
\* error with the exception's message and then the rephrase suggestion, no
\* panel, header or warning, and goes on to the footer; the failing handler
\* changes nothing that survives the run, and the next run starts with no
\* trace of it and handles its query by its own reply alone.
C4_QueryFailureRecoverable ==
    /\ [](reply.kind = "raise"
          => /\ PastQuery
             /\ Len(OfKind(shown, "error")) = 1
             /\ OfKind(shown, "error")[1].text[2] = reply.exc
             /\ shown[Len(shown) - (IF pc = "done" THEN 2 ELSE 0)].kind = "info"
             /\ shown[Len(shown) - (IF pc = "done" THEN 3 ELSE 1)].kind = "error"
             /\ Kinds(shown) \cap {"expander", "subheader", "warning"} = {}
             /\ (pc = "done" => shown[Len(shown)].kind = "footer"))
    /\ [][(pc = "query" /\ reply'.kind = "raise")
            => (persistent' = persistent /\ docs' = docs /\ retriever' = retriever
                /\ pc' = "footer")]_vars
    /\ [][(reply.kind = "raise" /\ runs' # runs)
            => (invoked' = <<>> /\ reply' = None /\ shown' = <<>> /\ user_query' = ""
                /\ cache' = cache /\ prevFailed')]_vars
    /\ [](prevFailed /\ PastQuery /\ user_query # ""
          => /\ invoked = <<user_query>>
             /\ reply.kind \in {"raise", "return"}
             /\ (reply.kind = "return" /\ reply.docs # <<>>
                   => Len(OfKind(shown, "expander")) = Len(reply.docs)))

\* A query submitted in the run after a failed one is answered with panels.
C4_Witness ==
    /\ prevFailed
    /\ pc = "done"
    /\ reply.kind = "return"
    /\ Len(reply.docs) = 2
    /\ invoked = <<user_query>>
    /\ Len(OfKind(shown, "expander")) = 2

\* C5: when the backend returned a non-empty sequence of documents, the page
\* has one panel per document, in the order returned and with that
\* document's director, year, plot, genre and rating, under one header, and
\* neither the warning nor an error.
C5_OnePanelPerDocument ==
    (reply.kind = "return" /\ reply.docs # <<>>)
    => LET panels == OfKind(shown, "expander")
       IN /\ Len(panels) = Len(reply.docs)
          /\ \A i \in 1..Len(panels) :
                /\ panels[i].text[1] = reply.docs[i].metadata.director
                /\ panels[i].text[2] = reply.docs[i].metadata.year
                /\ panels[i].text[3] = reply.docs[i].page_content
                /\ panels[i].text[4] = reply.docs[i].metadata.genre
                /\ panels[i].text[5] = reply.docs[i].metadata.rating
          /\ Len(OfKind(shown, "subheader")) = 1
          /\ Kinds(shown) \cap {"warning", "error", "info"} = {}

\* Two documents returned against catalog order, both rendered.
C5_Witness ==
    /\ pc = "done"
    /\ reply.kind = "return"
    /\ reply.docs = <<Catalog[10], Catalog[2]>>
    /\ Len(OfKind(shown, "expander")) = 2

\* C6: when the backend returned an empty result for a non-empty query, the
\* page has the warning once and no panel, header, error or suggestion.
C6_EmptyResultWarns ==
    (reply.kind = "return" /\ reply.docs = <<>>)
    => /\ user_query # ""
       /\ Len(OfKind(shown, "warning")) = 1
       /\ Kinds(shown) \cap {"expander", "subheader", "error", "info"} = {}

C6_Witness ==
    /\ pc = "done"
    /\ user_query # ""
    /\ reply.kind = "return"
    /\ reply.docs = <<>>
    /\ "warning" \in Kinds(shown)

\* C9: the query handler changes nothing that survives the run and neither
\* the catalog nor the retriever of the run; the catalog is the ten records
\* of the source whenever it is defined, the cached retriever stays the same
\* object over the same ten records, and a run calls the backend at most
\* once, exactly once for a non-empty query, with that query string alone.
C9_QueryLeavesNoTrace ==
    /\ [][pc = "query" => (docs' = docs /\ retriever' = retriever
                           /\ persistent' = persistent)]_vars
    /\ [](docs \in {<<>>, Catalog})
    /\ [](pc \in {"query", "footer", "done"} => (docs = Catalog /\ Len(docs) = 10))
    /\ [](cache # None => (cache.index = Catalog /\ retriever \in {None, cache}))
    /\ [][cache # None => cache' = cache]_vars
    /\ [](invoked = <<>> \/ invoked = <<user_query>>)
    /\ [](PastQuery /\ user_query # "" => invoked = <<user_query>>)

\* The third run's query is answered by the retriever the first run built.
C9_Witness ==
    /\ runs = 3
    /\ pc = "done"
    /\ user_query # ""
    /\ invoked = <<user_query>>
    /\ cache # None
    /\ cache.id = 1
    /\ bodyStarts = 1

\* The outcomes a handled query can show.
ShowsPanels == "expander" \in Kinds(shown)
ShowsWarning == "warning" \in Kinds(shown)
ShowsError == "error" \in Kinds(shown)

\* C10: in a run that got past the query handler, an empty input means no
\* backend call and none of panels, warning and error; a non-empty input
\* means one backend call and exactly one of the three.
C10_ExclusiveOutcome ==
    PastQuery
    => IF user_query = ""
       THEN /\ invoked = <<>>
            /\ reply = None
            /\ ~ShowsPanels /\ ~ShowsWarning /\ ~ShowsError
            /\ Kinds(shown) \cap {"spinner", "subheader", "info"} = {}
       ELSE /\ Len(invoked) = 1
            /\ \/ ShowsPanels /\ ~ShowsWarning /\ ~ShowsError
               \/ ~ShowsPanels /\ ShowsWarning /\ ~ShowsError
               \/ ~ShowsPanels /\ ~ShowsWarning /\ ShowsError
            /\ ShowsError <=> "info" \in Kinds(shown)

\* An empty input box in a run that reuses the cached retriever.
C10_Witness ==
    /\ pc = "done"
    /\ user_query = ""
    /\ attempted = <<>>
    /\ retriever # None
    /\ shown[Len(shown)].kind = "footer"

====
